---- MODULE Spec2Model ----
(***************************************************************************)
(* Torus spiral portfolio (src/src/App.jsx): the navigation state of App,  *)
(* the camera animation record of Scene3D and the per-frame callback.      *)
(*                                                                         *)
(* Conventions of the model                                                *)
(*  - A React commit is part of the action that caused it: a handler (or   *)
(*    the frame callback) sets state, the components re-render, and the    *)
(*    effects whose dependencies changed run, children before parents,     *)
(*    until no state changes.                                              *)
(*  - A THREE.Vector3 is one integer coordinate in units of 1/PosScale     *)
(*    scene units; vector sums, clones and lerps act on it as written,     *)
(*    normalize() is the sign.                                             *)
(*  - Progress is an integer in units of 1/ProgressOne, durations and      *)
(*    frame deltas are in tenths of a second, so delta/duration is exact.  *)
(*  - Angles are integers in units of the auto-rotation of one frame       *)
(*    quantum (0.15 rad); the azimuth is kept modulo AngleTurn.            *)
(*  - The orbit is sampled at OrbitSteps points and the clock is kept      *)
(*    modulo OrbitSteps, one step per frame quantum.                       *)
(*  - A pointer position is its clientX in pixels; the pointer moves along *)
(*    the x axis, so dy is 0 in every move.                                *)
(*  - A material's opacity is kept as its side of the click threshold: 1   *)
(*    above 0.3, 0 otherwise; a fade crosses it within a frame quantum.     *)
(*  - What the raycaster returns for a click is an input of the click.     *)
(***************************************************************************)
EXTENDS Integers, Sequences, FiniteSets, TLC

\* ------------------------------------------------------------------ bounds
\* how many of the entries of SECTIONS, and of the links of each, are modelled
NumSections == 2
NumLinks == 2
\* how far a drag may take the target azimuth from the damped one, angle units
MaxLag == 2

\* ------------------------------------------------------------------ scales
\* a frame quantum in tenths of a second, and the deltas of a frame in quanta
DeltaQuantum == 10
FrameDeltas == {1}
PosScale == 4
EaseScale == 1000
TrigScale == 100
\* samples of the closed orbit curve, and the period of the modelled clock
OrbitSteps == 2
\* angle units in a full turn of the azimuth
AngleTurn == 3

null == "null"

\* ------------------------------------------------------------------ data
\* orbitOffset in tenths of the curve, orbitSpeed in 1/10000 of the curve a second
AllSections ==
  << [id |-> "art",     orbitOffset |-> 0, orbitSpeed |-> 18,
      links |-> <<"gallery", "instagram", "process">>],
     [id |-> "dev",     orbitOffset |-> 2, orbitSpeed |-> 12,
      links |-> <<"projects", "github", "resume">>],
     [id |-> "yoga",    orbitOffset |-> 4, orbitSpeed |-> 22,
      links |-> <<"classes", "philosophy", "training">>],
     [id |-> "about",   orbitOffset |-> 6, orbitSpeed |-> 14,
      links |-> <<"story", "values", "press">>],
     [id |-> "contact", orbitOffset |-> 8, orbitSpeed |-> 20,
      links |-> <<"email", "booking", "social">>] >>

SECTIONS ==
  [i \in 1..NumSections |->
     [AllSections[i] EXCEPT !.links = SubSeq(@, 1, NumLinks)]]

SectionIds == {SECTIONS[i].id : i \in 1..NumSections}
LinkIdsOf(i) == {SECTIONS[i].links[j] : j \in 1..Len(SECTIONS[i].links)}
LinkIds == UNION {LinkIdsOf(i) : i \in 1..NumSections}
\* an id that names nothing
Bogus == "bogus"

\* SECTIONS.findIndex((s) => s.id === id): 0-based, -1 when absent
FindSection(id) ==
  IF \E i \in 1..NumSections : SECTIONS[i].id = id
  THEN (CHOOSE i \in 1..NumSections : SECTIONS[i].id = id) - 1
  ELSE -1

\* SECTIONS[sIdx].links.findIndex((l) => l.id === id), -1 when sIdx < 0
FindLink(sIdx, id) ==
  IF sIdx >= 0 /\ \E j \in 1..Len(SECTIONS[sIdx + 1].links) :
                     SECTIONS[sIdx + 1].links[j] = id
  THEN (CHOOSE j \in 1..Len(SECTIONS[sIdx + 1].links) :
          SECTIONS[sIdx + 1].links[j] = id) - 1
  ELSE -1

\* ------------------------------------------------------------------ arithmetic
Abs(x) == IF x < 0 THEN -x ELSE x
Sign(x) == IF x > 0 THEN 1 ELSE IF x < 0 THEN -1 ELSE 0

\* the remainder operator of JavaScript: the sign of the dividend
JsRem(x, n) == IF x >= 0 THEN x % n ELSE -((-x) % n)

\* a variant that takes every negative argument to 0
Wrap_clamped(x, n) == IF x < 0 THEN 0 ELSE JsRem(x, n)

\* ((x % n) + n) % n
Wrap(x, n) == JsRem(JsRem(x, n) + n, n)

\* x * num / den in fixed point, rounded away from zero: a positive fraction
\* of a non-zero distance always moves, as it does in floating point
MulFrac(x, num, den) == Sign(x) * ((Abs(x) * num + den - 1) \div den)

\* THREE.Vector3.lerpVectors(a, b, t), t in 1/den
LerpVectors(a, b, t, den) == a + MulFrac(b - a, t, den)

\* x += (target - x) * pct / 100
Damp(x, target, pct) == x + MulFrac(target - x, pct, 100)

\* ------------------------------------------------------------------ durations
DurationFromSub == 15
\* variants: the descent from home and the flight to a moon as short as the
\* return from a moon
DurationFromHome_asFromSub == DurationFromSub
DurationToSub_asFromSub == DurationFromSub
DurationFromHome == 25
DurationToSub == 18
\* variant: the flight home as long as the flight to a moon
DurationHome_asToSub == DurationToSub
DurationHome == 20
\* progress 1: a common multiple of the durations
ProgressOne == DurationFromHome * DurationToSub * 2

\* t < 0.5 ? 4 t^3 : 1 - (-2 t + 2)^3 / 2, in and out in fixed point
easeInOutCubic(p) ==
  IF 2 * p < ProgressOne
  THEN (p * p * p) \div ((ProgressOne * ProgressOne * ProgressOne) \div (4 * EaseScale))
  ELSE EaseScale
       - ((2 * ProgressOne - 2 * p) * (2 * ProgressOne - 2 * p) * (2 * ProgressOne - 2 * p))
         \div ((2 * ProgressOne * ProgressOne * ProgressOne) \div EaseScale)

\* ------------------------------------------------------------------ scene positions
\* the arguments getTorusPosition generates the curve with
TorusSections == 11
TorusSpans == 12

\* one turn of the loop of gcd: [a, b] = [b, a % b]
GcdNext(a, b) == <<b, JsRem(a, b)>>

RECURSIVE gcd(_, _)
\* while (b) [a, b] = [b, a % b]; return a
gcd(a, b) == IF b = 0 THEN a ELSE gcd(GcdNext(a, b)[1], GcdNext(a, b)[2])

\* a variant that does not divide by the gcd
StepsToClose_product(sections, spans, g) == sections * spans

\* stepsToClose = (sections * spans) / gcd(sections, spans)
StepsToClose(sections, spans, g) == (sections * spans) \div g

\* what generateTorusPoints({sections, spans}) leaves: the gcd in a, and the
\* number of raw points
generateTorusPoints(sections, spans) ==
  [sections |-> sections, spans |-> spans,
   a |-> gcd(sections, spans), b |-> 0,
   stepsToClose |-> StepsToClose(sections, spans, gcd(sections, spans)),
   pc |-> "done"]

\* before the curve is generated (_torusCurve = null)
NoKnot == [sections |-> 0, spans |-> 0, a |-> 0, b |-> 0, stepsToClose |-> 0,
           pc |-> "none"]

\* the closed curve sampled at OrbitSteps points: getPointAt(k / OrbitSteps)
TorusSamples == <<6, 5>>

\* the parameter getTorusPosition evaluates the curve at:
\* ((progress % 1) + 1) % 1, in samples
TorusParameter(k) == Wrap(k, OrbitSteps)

getTorusPosition(k) == TorusSamples[TorusParameter(k) + 1]

\* the record of one call of getTorusPosition
Lookup(k) == [progress |-> k, parameter |-> TorusParameter(k),
              point |-> getTorusPosition(k)]

\* before any call
NoLookup == [progress |-> 0, parameter |-> -1, point |-> 0]

\* the clock of the last frame that placed the spheres; NoTime before any
NoTime == -1

\* the progress of section index sIdx (0-based) along the curve at clock t:
\* time * orbitSpeed + orbitOffset wrapped into one lap, in samples, the orbit
\* sped up so that a sample is a frame quantum of the slowest section
SphereProgress(sIdx, t) ==
  Wrap(t * ((SECTIONS[sIdx + 1].orbitSpeed + 5) \div 10)
       + (SECTIONS[sIdx + 1].orbitOffset * OrbitSteps) \div 10, OrbitSteps)

\* sphere.position of section index sIdx as left by the last frame
SpherePosition(sIdx, t) ==
  IF t = NoTime THEN 0 ELSE getTorusPosition(SphereProgress(sIdx, t))

subSeed(sIdx, lIdx) == sIdx * 7 + lIdx * 13
seededVal(seed, mult) == (seed * mult) % 100

\* cos over quarter turns
CosQuarter(q) == <<1, 0, -1, 0>>[(q % 4) + 1]

\* sub.position of link lIdx of section sIdx as left by the last frame at
\* clock t under navigation state (sec, link): the parent's position plus the
\* moon's own orbit (radius 0.1 / 0.3 / 0.18 scene units, seeded start and sense)
SubPosition(sIdx, lIdx, t, sec, link) ==
  IF t = NoTime THEN 0
  ELSE LET seed == subSeed(sIdx, lIdx)
           isActiveSection == sec = SECTIONS[sIdx + 1].id
           isActiveLink == isActiveSection /\ link = SECTIONS[sIdx + 1].links[lIdx + 1]
           orbitDir == IF (seed * 53) % 2 = 0 THEN 1 ELSE -1
           orbitR == IF isActiveLink THEN 0 ELSE IF isActiveSection THEN 1 ELSE 1
           startQ == (seededVal(seed, 71) * 4) \div 100
       IN SpherePosition(sIdx, t) + orbitR * CosQuarter(startQ + t * orbitDir)

\* sin of the azimuth, a triangle wave of period AngleTurn
SinAzimuth(theta) ==
  LET m == (4 * theta) % (4 * AngleTurn)
  IN IF m <= AngleTurn THEN (TrigScale * m) \div AngleTurn
     ELSE IF m <= 3 * AngleTurn THEN (TrigScale * (2 * AngleTurn - m)) \div AngleTurn
     ELSE (TrigScale * (m - 4 * AngleTurn)) \div AngleTurn

\* cos and sin of the elevation (units of 0.15 rad), second-order near 0
CosElevation(phi) == TrigScale - (phi * phi * 9) \div 8
SinElevation(phi) == phi * 15

\* r cos(phi) sin(theta), r sin(phi), r cos(phi) cos(theta) as one coordinate
HomePosition(phi, theta, r) ==
  (r * CosElevation(phi) * SinAzimuth(theta)) \div (TrigScale * TrigScale)
  + (r * SinElevation(phi)) \div TrigScale


\* offsets of the camera's resting point from its target, in position units
ParentOffset == 2
ParentLift == 1
SubOffset == 1
SubLift == 0

\* pos + normalize(pos) * offset + (0, lift, 0)
RestPoint(pos, offset, lift) == pos + Sign(pos) * offset + lift

\* opacities in hundredths: a moon's material at creation, and the least
\* opacity (exclusive) at which a click on it counts
InitialOpacity == 80
OpacityThreshold == 30

\* the level of an opacity of h hundredths: 1 above the threshold, else 0
OpacityLevel(h) == IF h > OpacityThreshold THEN 1 ELSE 0

\* targetOp of moon lIdx of section sIdx under navigation state (sec, link)
TargetOpacity(sIdx, lIdx, sec, link) ==
  LET isActiveSection == sec = SECTIONS[sIdx + 1].id
      isActiveLink == isActiveSection /\ link = SECTIONS[sIdx + 1].links[lIdx + 1]
  IN IF link # null /\ isActiveSection
     THEN IF isActiveLink THEN 100 ELSE 15
     ELSE IF isActiveSection THEN 95 ELSE 80

\* ------------------------------------------------------------------ state
VARIABLES
  activeSection,      \* App: useState(null)
  activeLink,         \* App: useState(null)
  cameraPhase,        \* App: useState("idle")
  cameraProgress,     \* App: useState(0)
  pendingLinkRef,     \* App: useRef(null)
  cameraAnimRef,      \* Scene3D: the one camera animation record
  cameraPosition,     \* camera.position
  cameraLookAt,       \* the point last given to camera.lookAt
  prevSectionRef,     \* Scene3D: useRef(null)
  prevLinkRef,        \* Scene3D: useRef(null)
  rotationRef,        \* [x |-> elevation, y |-> azimuth], damped
  targetRotationRef,  \* [x, y], the targets
  autoRotateRef,      \* idle auto-rotation angle
  zoomRef,            \* damped orbit radius
  targetZoomRef,      \* target orbit radius
  isDraggingRef,      \* a pointer gesture is pressed
  time,               \* clock of the last frame, modulo OrbitSteps
  subSpherePositions, \* App: the moons last reported for labels, by link id
  hasDraggedRef,      \* the gesture moved past the click threshold
  lastMouseRef,       \* pointer position of the last press or move
  mouseDownPosRef,    \* pointer position of the press
  pinchStartRef,      \* distance of the two touches, NoPinch outside a pinch
  subOpacity,         \* subMaterial.opacity of every moon, by <<sIdx, lIdx>>
  torusLookup,        \* the last call of getTorusPosition: argument, parameter, point
  torusKnot,          \* generateTorusPoints: its arguments, gcd loop and step count
  showConstellation,  \* App: useState(false)
  lineOpacity,        \* material.opacity of every constellation line, hundredths
  mounted,            \* the components are mounted
  requestRef,         \* useAnimationFrame: id of the last request
  rafPending,         \* the browser: animation frame requests not yet run or cancelled
  listeners,          \* the browser: events the scene has a listener for
  gesture,            \* history: the pointer gesture in progress
  lastCmd,            \* history: the last navigation command and where it came from
  lastEvent           \* history: what the last step did

vars == <<activeSection, activeLink, cameraPhase, cameraProgress, pendingLinkRef,
          cameraAnimRef, cameraPosition, cameraLookAt, prevSectionRef, prevLinkRef,
          rotationRef, targetRotationRef, autoRotateRef, zoomRef, targetZoomRef,
          isDraggingRef, time, subSpherePositions, hasDraggedRef, lastMouseRef,
          mouseDownPosRef, pinchStartRef, subOpacity, torusLookup,
          torusKnot, showConstellation, lineOpacity, mounted,
          requestRef,
          rafPending, listeners, gesture, lastCmd, lastEvent>>

navVars == <<activeSection, activeLink, pendingLinkRef>>
orbitVars == <<rotationRef, targetRotationRef, autoRotateRef, zoomRef, targetZoomRef>>
pointerVars == <<isDraggingRef, hasDraggedRef, lastMouseRef, mouseDownPosRef,
                 pinchStartRef, gesture>>
cameraVars == <<cameraPhase, cameraProgress, cameraPosition, cameraLookAt>>
browserVars == <<mounted, requestRef, rafPending, listeners>>
lineVars == <<showConstellation, lineOpacity>>

\* the moons, by section index and link index
Moons == (0..(NumSections - 1)) \X (0..(NumLinks - 1))

\* what a hit-test returns: nothing, a planet or a moon
NoHit == [type |-> "none", sectionIndex |-> -1, linkIndex |-> -1]
Hits ==
  {NoHit}
  \cup {[type |-> "parent", sectionIndex |-> i, linkIndex |-> -1] :
          i \in 0..(NumSections - 1)}
  \cup {[type |-> "sub", sectionIndex |-> m[1], linkIndex |-> m[2]] : m \in Moons}

\* events listened to by the init effect and by the controls effect
InitListeners == {"resize"}
ControlsListeners == {"mousedown", "mousemove", "mouseup", "wheel",
                      "touchstart", "touchmove", "touchend"}

\* events whose listener the cleanups of those effects remove
InitRemoved == {"resize"}
ControlsRemoved == {"mousedown", "mousemove", "mouseup", "wheel",
                    "touchstart", "touchmove", "touchend"}

\* pinchStartRef outside a pinch (null in the code)
NoPinch == -1

NoGesture == [kind |-> "none", downAt |-> 0, at |-> 0, far |-> FALSE]

\* what a step that is no click records
NoClick == [hitTest |-> FALSE, hit |-> NoHit]

NoCmd == [name |-> "none", sectionId |-> null, linkId |-> null, from |-> "home"]

\* where a command for section sectionId comes from
Origin(sectionId) ==
  IF activeSection = null
  THEN IF cameraPhase \in {"home", "idle"} THEN "home" ELSE "homeStale"
  ELSE IF activeSection = sectionId THEN "same" ELSE "other"

\* the state after construction but for the curve lookup
InitScene ==
  /\ activeSection = null
  /\ activeLink = null
  /\ cameraPhase = "idle"
  /\ cameraProgress = 0
  /\ pendingLinkRef = null
  /\ cameraAnimRef = [active |-> FALSE, phase |-> "idle",
                      startPos |-> 0, endPos |-> 0,
                      startLookAt |-> 0, endLookAt |-> 0, currentLookAt |-> 0,
                      progress |-> 0, duration |-> DurationFromHome,
                      targetSectionIndex |-> -1, targetLinkIndex |-> -1]
  /\ cameraPosition = 2 * PosScale
  /\ cameraLookAt = 0
  /\ prevSectionRef = null
  /\ prevLinkRef = null
  /\ rotationRef = [x |-> 2, y |-> 0]
  /\ targetRotationRef = [x |-> 2, y |-> 0]
  /\ autoRotateRef = 0
  /\ zoomRef = (9 * PosScale) \div 2
  /\ targetZoomRef = (9 * PosScale) \div 2
  /\ isDraggingRef = FALSE
  /\ time = NoTime
  /\ subSpherePositions = <<>>
  /\ hasDraggedRef = FALSE
  /\ lastMouseRef = 0
  /\ mouseDownPosRef = 0
  /\ pinchStartRef = NoPinch
  /\ subOpacity = [m \in Moons |-> OpacityLevel(InitialOpacity)]
  /\ mounted = TRUE
  /\ requestRef = 0
  /\ rafPending = {0}
  /\ listeners = InitListeners \cup ControlsListeners
  /\ gesture = NoGesture
  /\ lastCmd = NoCmd
  /\ lastEvent = [name |-> "init", consumed |-> null, flights |-> 0,
                  input |-> "init", click |-> NoClick]
  /\ showConstellation = FALSE
  /\ lineOpacity = [i \in 0..(NumSections - 1) |-> 0]

Init == InitScene /\ torusLookup = NoLookup /\ torusKnot = NoKnot

\* ------------------------------------------------------------------ effects
\* a variant that keeps the start recorded by the flight before
StartPose_stale(a) == [startPos |-> a.startPos, startLookAt |-> a.startLookAt]

\* the pose a new flight starts from: camera.position.clone() and
\* anim.currentLookAt.clone()
StartPose(a) == [startPos |-> cameraPosition, startLookAt |-> a.currentLookAt]

\* a variant that never shortens the flight
ParentDuration_fresh(prevLink) == DurationFromHome

\* the duration of a flight to a planet: prevLinkRef.current ? 1.5 : 2.5
ParentDuration(prevLink) ==
  IF prevLink # null THEN DurationFromSub ELSE DurationFromHome

\* Scene3D's effect on [activeSection, activeLink]: the flight the new
\* navigation state asks for, written over the record a
CameraFlyTrigger(a, sec, link, prevSec, prevLink) ==
  IF link # null /\ sec # null
  THEN LET sIdx == FindSection(sec)
           lIdx == FindLink(sIdx, link)
       IN IF sIdx >= 0 /\ lIdx >= 0
          THEN [a EXCEPT !.active = TRUE, !.phase = "flyToSub",
                         !.startPos = StartPose(a).startPos,
                         !.startLookAt = StartPose(a).startLookAt,
                         !.targetSectionIndex = sIdx, !.targetLinkIndex = lIdx,
                         !.progress = 0, !.duration = DurationToSub]
          ELSE a
  ELSE IF sec # null /\ link = null
  THEN [a EXCEPT !.active = TRUE, !.phase = "flyToParent",
                 !.startPos = StartPose(a).startPos,
                 !.startLookAt = StartPose(a).startLookAt,
                 !.targetSectionIndex = FindSection(sec), !.targetLinkIndex = -1,
                 !.progress = 0,
                 !.duration = ParentDuration(prevLink)]
  ELSE IF sec = null /\ link = null /\ prevSec # null
  THEN [a EXCEPT !.active = TRUE, !.phase = "flyHome",
                 !.startPos = StartPose(a).startPos,
                 !.endPos = HomePosition(rotationRef.x, rotationRef.y, zoomRef),
                 !.startLookAt = StartPose(a).startLookAt, !.endLookAt = 0,
                 !.targetSectionIndex = -1, !.targetLinkIndex = -1,
                 !.progress = 0, !.duration = DurationHome]
  ELSE a

\* whether that effect starts a flight for (sec, link)
StartsFlight(sec, link, prevSec) ==
  \/ link # null /\ sec # null /\ FindLink(FindSection(sec), link) >= 0
  \/ sec # null /\ link = null
  \/ sec = null /\ link = null /\ prevSec # null

\* variants: one that never fires, one that does not wait for the parking
PendingLinkEffect_never(pend, sec, phase) == null

PendingLinkEffect_anyPhase(pend, sec, phase) ==
  IF pend # null /\ sec # null THEN pend ELSE null

\* App's effect on [cameraPhase, activeSection]: the queued link it fires, or null
PendingLinkEffect(pend, sec, phase) ==
  IF pend # null /\ sec # null /\ phase = "parkedAtParent" THEN pend ELSE null

\* The commit after a handler or frame left (sec, link, pend, phase) as the
\* next state, phase being what App holds as cameraPhase, with a the
\* animation record at that point: Scene3D's effect, then App's, then
\* Scene3D's again if App's set the link.
Commit(sec, link, pend, phase, a) ==
  LET navChanged == <<sec, link>> # <<activeSection, activeLink>>
      a1 == IF navChanged
            THEN CameraFlyTrigger(a, sec, link, prevSectionRef, prevLinkRef) ELSE a
      n1 == IF navChanged /\ StartsFlight(sec, link, prevSectionRef) THEN 1 ELSE 0
      prevSec1 == IF navChanged THEN sec ELSE prevSectionRef
      prevLink1 == IF navChanged THEN link ELSE prevLinkRef
      pendDeps == <<phase, sec>> # <<cameraPhase, activeSection>>
      fired == IF pendDeps THEN PendingLinkEffect(pend, sec, phase) ELSE null
      link2 == IF fired # null THEN fired ELSE link
      pend2 == IF fired # null THEN null ELSE pend
      again == link2 # link
      a2 == IF again THEN CameraFlyTrigger(a1, sec, link2, prevSec1, prevLink1) ELSE a1
      n2 == IF again /\ StartsFlight(sec, link2, prevSec1) THEN 1 ELSE 0
  IN [activeSection |-> sec, activeLink |-> link2, pendingLinkRef |-> pend2,
      cameraAnimRef |-> a2,
      prevSectionRef |-> prevSec1,
      prevLinkRef |-> IF again THEN link2 ELSE prevLink1,
      consumed |-> fired, flights |-> n1 + n2]

\* the commit of a handler's writes (sec, link, pend), as the step of input
\* `input` with click record `click`
NavWrites(name, sectionId, linkId, sec, link, pend, input, click) ==
  \E c \in {Commit(sec, link, pend, cameraPhase, cameraAnimRef)} :
     /\ activeSection' = c.activeSection
     /\ activeLink' = c.activeLink
     /\ pendingLinkRef' = c.pendingLinkRef
     /\ cameraAnimRef' = c.cameraAnimRef
     /\ prevSectionRef' = c.prevSectionRef
     /\ prevLinkRef' = c.prevLinkRef
     /\ lastCmd' = [name |-> name, sectionId |-> sectionId, linkId |-> linkId,
                    from |-> Origin(sectionId)]
     /\ lastEvent' = [name |-> name, consumed |-> c.consumed, flights |-> c.flights,
                      input |-> input, click |-> click]
     /\ subSpherePositions' = IF name = "back" THEN <<>> ELSE subSpherePositions

\* a command's step: the handler's writes, committed
Command(name, sectionId, linkId, sec, link, pend) ==
  /\ mounted
  /\ NavWrites(name, sectionId, linkId, sec, link, pend, "button", NoClick)
  /\ UNCHANGED <<cameraVars, orbitVars, pointerVars, time, subOpacity, torusLookup,
                 browserVars, lineVars, torusKnot>>

\* ------------------------------------------------------------------ handlers
\* a variant without the early return
handleClickSection_noGuard(id) == <<id, null, null>>

\* a variant that leaves the pending slot as it is
handleClickSection_keepPending(id) ==
  IF activeSection = id /\ activeLink = null
  THEN <<activeSection, activeLink, pendingLinkRef>>
  ELSE <<id, null, pendingLinkRef>>

\* what handleClickSection(id) leaves as <<activeSection, activeLink, pending>>
handleClickSection(id) ==
  IF activeSection = id /\ activeLink = null
  THEN <<activeSection, activeLink, pendingLinkRef>>
  ELSE <<id, null, null>>

\* a variant that leaves the active link as it is
handleBack_keepLink == <<null, activeLink, null>>

\* a variant that leaves the pending slot as it is
handleBack_keepPending == <<null, null, pendingLinkRef>>

handleBack == <<null, null, null>>

handleBackToSection == <<activeSection, null, null>>

\* variants: one that activates the link at once whatever the section, one
\* that leaves the active link in place when it changes section
handleClickSubSphere_direct(sectionId, linkId) ==
  <<sectionId, linkId, pendingLinkRef>>

handleClickSubSphere_keepLink(sectionId, linkId) ==
  IF activeSection # sectionId
  THEN <<sectionId, activeLink, linkId>>
  ELSE IF cameraPhase = "flyToParent"
  THEN <<activeSection, activeLink, linkId>>
  ELSE <<activeSection, linkId, pendingLinkRef>>

handleClickSubSphere(sectionId, linkId) ==
  IF activeSection # sectionId
  THEN <<sectionId, null, linkId>>
  ELSE IF cameraPhase = "flyToParent"
  THEN <<activeSection, activeLink, linkId>>
  ELSE <<activeSection, linkId, pendingLinkRef>>

EnterSection(id) ==
  LET r == handleClickSection(id)
  IN Command("enterSection", id, null, r[1], r[2], r[3])

EnterLink(sectionId, linkId) ==
  LET r == handleClickSubSphere(sectionId, linkId)
  IN Command("enterLink", sectionId, linkId, r[1], r[2], r[3])

Back ==
  LET r == handleBack
  IN Command("back", null, null, r[1], r[2], r[3])

BackToSection ==
  LET r == handleBackToSection
  IN Command("backToSection", null, null, r[1], r[2], r[3])


\* ------------------------------------------------------------------ pointer input
\* pointer positions (clientX), wheel deltas (deltaY) and pinch distances, px
Coords == {0, 5, 8, 9}
WheelDeltas == {-10000, -2000, 2000, 10000}
PinchDists == {50, 650}

\* displacement from the press beyond which a gesture is a drag, px
ClickSlopMouse == 5
ClickSlopTouch == 8

\* limits of the target zoom radius, scene units
ZoomMin == 2
ZoomMax == 8

\* a variant without the lower limit
ClampZoom_noMin(z) ==
  LET hi == ZoomMax * PosScale
  IN IF z > hi THEN hi ELSE z

\* Math.max(2, Math.min(8, z)) on a radius in position units
ClampZoom(z) ==
  LET lo == ZoomMin * PosScale
      hi == ZoomMax * PosScale
  IN IF z < lo THEN lo ELSE IF z > hi THEN hi ELSE z

\* dx * 0.005 rad, to the nearest angle unit
RotateBy(dx) == Sign(dx) * ((Abs(dx) * 10 + 150) \div 300)

\* a variant that tests the hit while a flight is active too
handleClick_inFlight(h) ==
  IF hasDraggedRef
  THEN [hitTest |-> FALSE, hit |-> NoHit, nav |-> "none"]
  ELSE [hitTest |-> TRUE, hit |-> h,
        nav |-> IF h.type = "parent" /\ activeSection = null
                THEN "enterSection"
                ELSE IF h.type = "sub" /\ activeSection # null /\ activeLink = null
                        /\ subOpacity[<<h.sectionIndex, h.linkIndex>>]
                              > OpacityLevel(OpacityThreshold)
                THEN "enterLink"
                ELSE "none"]

\* handleClick for a pointer whose ray meets h: whether the hit-test is made,
\* and the handler it calls
handleClick(h) ==
  IF hasDraggedRef \/ cameraAnimRef.active
  THEN [hitTest |-> FALSE, hit |-> NoHit, nav |-> "none"]
  ELSE [hitTest |-> TRUE, hit |-> h,
        nav |-> IF h.type = "parent" /\ activeSection = null
                THEN "enterSection"
                ELSE IF h.type = "sub" /\ activeSection # null /\ activeLink = null
                        /\ subOpacity[<<h.sectionIndex, h.linkIndex>>]
                              > OpacityLevel(OpacityThreshold)
                THEN "enterLink"
                ELSE "none"]

\* a step of input `input` that calls no navigation handler
PointerWrites(input, click) ==
  /\ lastEvent' = [name |-> "pointer", consumed |-> null, flights |-> 0,
                   input |-> input, click |-> click]
  /\ UNCHANGED <<activeSection, activeLink, pendingLinkRef, cameraAnimRef,
                 prevSectionRef, prevLinkRef, lastCmd, subSpherePositions>>

\* the click of onMU / onTE when the ray meets h, and the commit of what it calls
Release(input, h) ==
  LET o == handleClick(h)
      click == [hitTest |-> o.hitTest, hit |-> o.hit]
      sectionId == SECTIONS[h.sectionIndex + 1].id
  IN IF o.nav = "enterSection"
     THEN LET r == handleClickSection(sectionId)
          IN NavWrites("enterSection", sectionId, null, r[1], r[2], r[3], input, click)
     ELSE IF o.nav = "enterLink"
     THEN LET linkId == SECTIONS[h.sectionIndex + 1].links[h.linkIndex + 1]
              r == handleClickSubSphere(sectionId, linkId)
          IN NavWrites("enterLink", sectionId, linkId, r[1], r[2], r[3], input, click)
     ELSE PointerWrites(input, click)

\* the press of onMD / onTS (one touch) at x
Press(x) ==
  IF cameraAnimRef.active
  THEN UNCHANGED <<isDraggingRef, hasDraggedRef, lastMouseRef, mouseDownPosRef>>
  ELSE /\ isDraggingRef' = TRUE
       /\ hasDraggedRef' = FALSE
       /\ lastMouseRef' = x
       /\ mouseDownPosRef' = x

\* a variant that takes any move for a drag
Drag_noSlop(x, slop) ==
  /\ hasDraggedRef' = (hasDraggedRef \/ x # mouseDownPosRef)
  /\ targetRotationRef' =
       IF activeSection = null
       THEN [targetRotationRef EXCEPT !.y = @ + RotateBy(x - lastMouseRef)]
       ELSE targetRotationRef
  /\ lastMouseRef' = x

\* a variant that turns the orbit whether or not a section is active
Drag_anySection(x, slop) ==
  /\ hasDraggedRef' = (hasDraggedRef \/ Abs(x - mouseDownPosRef) > slop)
  /\ targetRotationRef' = [targetRotationRef EXCEPT !.y = @ + RotateBy(x - lastMouseRef)]
  /\ lastMouseRef' = x

\* the move of onMM / onTM (one touch) to x while a gesture is pressed
Drag(x, slop) ==
  /\ hasDraggedRef' = (hasDraggedRef \/ Abs(x - mouseDownPosRef) > slop)
  /\ targetRotationRef' =
       IF activeSection = null
       THEN [targetRotationRef EXCEPT !.y = @ + RotateBy(x - lastMouseRef)]
       ELSE targetRotationRef
  /\ lastMouseRef' = x

onMD(x) ==
  /\ "mousedown" \in listeners
  /\ gesture.kind = "none"
  /\ Press(x)
  /\ gesture' = [kind |-> "mouse", downAt |-> x, at |-> x, far |-> FALSE]
  /\ PointerWrites("mousedown", NoClick)
  /\ UNCHANGED <<cameraVars, orbitVars, pinchStartRef, time, subOpacity, torusLookup,
                 browserVars, lineVars, torusKnot>>

onMM(x) ==
  /\ "mousemove" \in listeners
  /\ gesture.kind = "mouse"
  /\ x # gesture.at
  /\ IF isDraggingRef
     THEN Drag(x, ClickSlopMouse)
     ELSE UNCHANGED <<hasDraggedRef, targetRotationRef, lastMouseRef>>
  /\ Abs(targetRotationRef'.y - rotationRef.y) <= MaxLag
  /\ gesture' = [gesture EXCEPT !.at = x,
                    !.far = @ \/ Abs(x - gesture.downAt) > ClickSlopMouse]
  /\ PointerWrites("mousemove", NoClick)
  /\ UNCHANGED <<cameraVars, rotationRef, autoRotateRef, zoomRef, targetZoomRef,
                 isDraggingRef, mouseDownPosRef, pinchStartRef, time, subOpacity,
                 torusLookup,
                 browserVars, lineVars, torusKnot>>

onMU(h) ==
  /\ "mouseup" \in listeners
  /\ gesture.kind = "mouse"
  /\ Release("mouseup", h)
  /\ isDraggingRef' = FALSE
  /\ hasDraggedRef' = FALSE
  /\ gesture' = NoGesture
  /\ UNCHANGED <<cameraVars, orbitVars, lastMouseRef, mouseDownPosRef, pinchStartRef,
                 time, subOpacity, torusLookup,
                 browserVars, lineVars, torusKnot>>

onWH(deltaY) ==
  /\ "wheel" \in listeners
  /\ targetZoomRef' =
       IF cameraAnimRef.active \/ activeSection # null
       THEN targetZoomRef
       ELSE ClampZoom(targetZoomRef + MulFrac(deltaY, 3 * PosScale, 1000))
  /\ PointerWrites("wheel", NoClick)
  /\ UNCHANGED <<cameraVars, rotationRef, targetRotationRef, autoRotateRef, zoomRef,
                 pointerVars, time, subOpacity, torusLookup,
                 browserVars, lineVars, torusKnot>>

\* touchstart with one touch at x
onTS1(x) ==
  /\ "touchstart" \in listeners
  /\ gesture.kind = "none"
  /\ Press(x)
  /\ gesture' = [kind |-> "touch", downAt |-> x, at |-> x, far |-> FALSE]
  /\ PointerWrites("touchstart", NoClick)
  /\ UNCHANGED <<cameraVars, orbitVars, pinchStartRef, time, subOpacity, torusLookup,
                 browserVars, lineVars, torusKnot>>

\* touchstart with two touches dist apart
onTS2(dist) ==
  /\ "touchstart" \in listeners
  /\ gesture.kind \in {"none", "touch"}
  /\ pinchStartRef' = IF cameraAnimRef.active THEN pinchStartRef ELSE dist
  /\ gesture' = [gesture EXCEPT !.kind = "pinch"]
  /\ PointerWrites("touchstart", NoClick)
  /\ UNCHANGED <<cameraVars, orbitVars, isDraggingRef, hasDraggedRef, lastMouseRef,
                 mouseDownPosRef, time, subOpacity, torusLookup,
                 browserVars, lineVars, torusKnot>>

\* touchmove with one touch at x
onTM1(x) ==
  /\ "touchmove" \in listeners
  /\ gesture.kind = "touch"
  /\ x # gesture.at
  /\ IF isDraggingRef
     THEN Drag(x, ClickSlopTouch)
     ELSE UNCHANGED <<hasDraggedRef, targetRotationRef, lastMouseRef>>
  /\ Abs(targetRotationRef'.y - rotationRef.y) <= MaxLag
  /\ gesture' = [gesture EXCEPT !.at = x,
                    !.far = @ \/ Abs(x - gesture.downAt) > ClickSlopTouch]
  /\ PointerWrites("touchmove", NoClick)
  /\ UNCHANGED <<cameraVars, rotationRef, autoRotateRef, zoomRef, targetZoomRef,
                 isDraggingRef, mouseDownPosRef, pinchStartRef, time, subOpacity,
                 torusLookup,
                 browserVars, lineVars, torusKnot>>

\* touchmove with two touches dist apart
onTM2(dist) ==
  /\ "touchmove" \in listeners
  /\ gesture.kind = "pinch"
  /\ IF pinchStartRef # NoPinch /\ activeSection = null
     THEN /\ targetZoomRef' =
               ClampZoom(targetZoomRef + MulFrac(pinchStartRef - dist, PosScale, 100))
          /\ pinchStartRef' = dist
     ELSE UNCHANGED <<targetZoomRef, pinchStartRef>>
  /\ PointerWrites("touchmove", NoClick)
  /\ UNCHANGED <<cameraVars, rotationRef, targetRotationRef, autoRotateRef, zoomRef,
                 isDraggingRef, hasDraggedRef, lastMouseRef, mouseDownPosRef, gesture,
                 time, subOpacity, torusLookup,
                 browserVars, lineVars, torusKnot>>

onTE(h) ==
  /\ "touchend" \in listeners
  /\ gesture.kind \in {"touch", "pinch"}
  /\ Release("touchend", h)
  /\ isDraggingRef' = FALSE
  /\ hasDraggedRef' = FALSE
  /\ pinchStartRef' = NoPinch
  /\ gesture' = NoGesture
  /\ UNCHANGED <<cameraVars, orbitVars, lastMouseRef, mouseDownPosRef, time,
                 subOpacity, torusLookup, browserVars, lineVars, torusKnot>>

\* ------------------------------------------------------------------ the frame
\* a variant without the clamp
AdvanceProgress_noCap(progress, delta, duration) ==
  progress + (delta * ProgressOne) \div duration

\* a variant that stops short of 1
AdvanceProgress_short(progress, delta, duration) ==
  LET p == progress + (delta * ProgressOne) \div duration
  IN IF p >= ProgressOne THEN ProgressOne - 1 ELSE p

\* progress += delta / duration, clamped at 1
AdvanceProgress(progress, delta, duration) ==
  LET p == progress + (delta * ProgressOne) \div duration
  IN IF p >= ProgressOne THEN ProgressOne ELSE p

\* the camera block of animate while a flight is active:
\* [anim, position, lookAt, phase, progress]
FlightFrame(a, delta) ==
  LET p == AdvanceProgress(a.progress, delta, a.duration)
      t == easeInOutCubic(p)
      a1 == [a EXCEPT !.progress = p, !.active = p < ProgressOne]
      toParent == a.phase = "flyToParent" /\ a.targetSectionIndex >= 0
      toSub == a.phase = "flyToSub" /\ a.targetSectionIndex >= 0
               /\ a.targetLinkIndex >= 0
      pos == IF toParent THEN SpherePosition(a.targetSectionIndex, time)
             ELSE IF toSub
             THEN SubPosition(a.targetSectionIndex, a.targetLinkIndex, time,
                              activeSection, activeLink)
             ELSE a.endLookAt
      endPos == IF toParent THEN RestPoint(pos, ParentOffset, ParentLift)
                ELSE IF toSub THEN RestPoint(pos, SubOffset, SubLift)
                ELSE a.endPos
      lookAt == LerpVectors(a.startLookAt, pos, t, EaseScale)
  IN [anim |-> [a1 EXCEPT !.currentLookAt = lookAt],
      position |-> LerpVectors(a.startPos, endPos, t, EaseScale),
      lookAt |-> lookAt,
      phase |-> a.phase, progress |-> p]

\* a variant that tells no moon from its planet
RestPhase_noSub(sec, link) == IF sec = null THEN "home" ELSE "parkedAtParent"

\* the phase animate reports with no flight active
RestPhase(sec, link) ==
  IF sec = null THEN "home"
  ELSE IF link = null THEN "parkedAtParent" ELSE "parkedAtSub"

\* the camera block of animate with no flight active, rot and zoom being the
\* damped values of this frame
RestFrame(a, rot, zoom) ==
  IF activeSection = null
  THEN [anim |-> a, position |-> HomePosition(rot.x, rot.y, zoom),
        lookAt |-> 0, phase |-> RestPhase(activeSection, activeLink),
        progress |-> 0]
  ELSE IF activeLink = null
  THEN LET idx == FindSection(activeSection)
           pos == SpherePosition(idx, time)
       IN [anim |-> a,
           position |-> IF idx >= 0
                        THEN LerpVectors(cameraPosition,
                                         RestPoint(pos, ParentOffset, ParentLift),
                                         3, 100)
                        ELSE cameraPosition,
           lookAt |-> IF idx >= 0 THEN pos ELSE cameraLookAt,
           phase |-> RestPhase(activeSection, activeLink), progress |-> 0]
  ELSE LET sIdx == FindSection(activeSection)
           lIdx == FindLink(sIdx, activeLink)
           ok == sIdx >= 0 /\ lIdx >= 0
           subPos == SubPosition(sIdx, lIdx, time, activeSection, activeLink)
       IN [anim |-> a,
           position |-> IF ok
                        THEN LerpVectors(cameraPosition,
                                         RestPoint(subPos, SubOffset, SubLift),
                                         3, 100)
                        ELSE cameraPosition,
           lookAt |-> IF ok THEN subPos ELSE cameraLookAt,
           phase |-> RestPhase(activeSection, activeLink), progress |-> 0]

\* a variant that reports the moons of the active section with a link active too
ReportedPositions_anyLink ==
  IF activeSection # null /\ FindSection(activeSection) >= 0
  THEN SECTIONS[FindSection(activeSection) + 1].links
  ELSE <<>>

\* the moons reported for labels by this frame
ReportedPositions ==
  IF activeSection # null /\ activeLink = null
  THEN IF FindSection(activeSection) >= 0
       THEN SECTIONS[FindSection(activeSection) + 1].links
       ELSE subSpherePositions
  ELSE <<>>

\* the opacity of a constellation line that is shown, hundredths
LineShown == 35

\* a variant that shows the lines whether or not a section is active
LineTarget_anySection(show, sec) == IF show THEN LineShown ELSE 0

\* targetOpacity of the constellation lines: showConstellation && !activeSection ? 0.35 : 0
LineTarget(show, sec) == IF show /\ sec = null THEN LineShown ELSE 0

\* line.material.opacity += (targetOpacity - line.material.opacity) * 0.08
FadeLine(i) == Damp(lineOpacity[i], LineTarget(showConstellation, activeSection), 8)

\* subMat.opacity += (targetOp - subMat.opacity) * 0.06
FadeOpacity(m) ==
  Damp(subOpacity[m],
       OpacityLevel(TargetOpacity(m[1], m[2], activeSection, activeLink)), 6)

\* the id requestAnimationFrame returns after id
NextRequest(id) == 1 - id

\* the clock after a frame dq quanta later, modulo the orbit's period
NextTime(dq) == (IF time = NoTime THEN 0 ELSE time + dq) % OrbitSteps

\* animate(time, delta) with delta = dq quanta, and the commit of what it reports
Frame(dq) ==
  /\ requestRef \in rafPending
  /\ UNCHANGED <<targetZoomRef, pointerVars, lastCmd, mounted, listeners,
                 showConstellation>>
  /\ requestRef' = NextRequest(requestRef)
  /\ rafPending' = (rafPending \ {requestRef}) \cup {NextRequest(requestRef)}
  /\   LET a == cameraAnimRef
           idle == ~isDraggingRef /\ ~a.active /\ activeSection = null
           auto1 == IF idle THEN autoRotateRef + dq
                    ELSE IF isDraggingRef THEN targetRotationRef.y ELSE autoRotateRef
           targetY1 == IF idle THEN auto1 ELSE targetRotationRef.y
           rotX1 == Damp(rotationRef.x, targetRotationRef.x, 5)
           rotY1 == Damp(rotationRef.y, targetY1, 5)
           zoom1 == Damp(zoomRef, targetZoomRef, 5)
           \* at Home whole turns are dropped from the three azimuths together
           turns == IF activeSection # null THEN 0
                    ELSE IF auto1 >= 0 THEN (auto1 \div AngleTurn) * AngleTurn
                    ELSE -(((-auto1) + AngleTurn - 1) \div AngleTurn) * AngleTurn
       IN \E f \in {IF a.active THEN FlightFrame(a, dq * DeltaQuantum)
                    ELSE RestFrame(a, [x |-> rotX1, y |-> rotY1], zoom1)} :
          \E c \in {Commit(activeSection, activeLink, pendingLinkRef, f.phase, f.anim)} :
          /\ autoRotateRef' = auto1 - turns
          /\ targetRotationRef' = [targetRotationRef EXCEPT !.y = targetY1 - turns]
          /\ rotationRef' = [x |-> rotX1, y |-> rotY1 - turns]
          /\ zoomRef' = zoom1
          /\ cameraPosition' = f.position
          /\ cameraLookAt' = f.lookAt
          /\ cameraPhase' = f.phase
          /\ cameraProgress' = f.progress
          /\ time' = NextTime(dq)
          /\ subSpherePositions' = ReportedPositions
          /\ activeSection' = c.activeSection
          /\ activeLink' = c.activeLink
          /\ pendingLinkRef' = c.pendingLinkRef
          /\ cameraAnimRef' = c.cameraAnimRef
          /\ prevSectionRef' = c.prevSectionRef
          /\ prevLinkRef' = c.prevLinkRef
          /\ subOpacity' = [m \in Moons |-> FadeOpacity(m)]
          /\ torusLookup' = Lookup(SphereProgress(NumSections - 1, NextTime(dq)))
          /\ lineOpacity' = [i \in 0..(NumSections - 1) |-> FadeLine(i)]
          /\ torusKnot' = IF torusKnot.pc = "none"
                          THEN generateTorusPoints(TorusSections, TorusSpans)
                          ELSE torusKnot
          /\ lastEvent' = [name |-> "frame", consumed |-> c.consumed,
                           flights |-> c.flights, input |-> "frame", click |-> NoClick]

\* ------------------------------------------------------------------ constellation
\* handleToggleConstellation, from the button the header shows while no
\* section is active
ToggleConstellation ==
  /\ mounted
  /\ activeSection = null
  /\ showConstellation' = ~showConstellation
  /\ lastEvent' = [name |-> "toggle", consumed |-> null, flights |-> 0,
                   input |-> "button", click |-> NoClick]
  /\ UNCHANGED <<navVars, cameraVars, orbitVars, pointerVars, browserVars,
                 cameraAnimRef, prevSectionRef, prevLinkRef, time,
                 subSpherePositions, subOpacity, torusLookup, lastCmd, lineOpacity,
                 torusKnot>>

\* ------------------------------------------------------------------ teardown
\* a variant that cancels the request before the last
CancelFrame_stale(pending, id) == pending \ {NextRequest(id)}

\* cancelAnimationFrame(id) on the requests pending
CancelFrame(pending, id) == pending \ {id}

\* the components unmount: the cleanups of the frame loop, of the init effect
\* and of the controls effect
Unmount ==
  /\ mounted
  /\ mounted' = FALSE
  /\ rafPending' = CancelFrame(rafPending, requestRef)
  /\ listeners' = (listeners \ InitRemoved) \ ControlsRemoved
  /\ lastEvent' = [name |-> "unmount", consumed |-> null, flights |-> 0,
                   input |-> "unmount", click |-> NoClick]
  /\ UNCHANGED <<navVars, cameraVars, orbitVars, pointerVars, cameraAnimRef,
                 prevSectionRef, prevLinkRef, time, subSpherePositions, subOpacity,
                 torusLookup,
                 requestRef, lastCmd, lineVars, torusKnot>>

\* ------------------------------------------------------------------ specifications
ValidCommand ==
  \/ \E id \in SectionIds : EnterSection(id)
  \/ \E i \in 1..NumSections : \E l \in LinkIdsOf(i) : EnterLink(SECTIONS[i].id, l)
  \/ Back
  \/ BackToSection

InvalidCommand ==
  \/ EnterSection(Bogus)
  \/ \E id \in {SECTIONS[1].id, Bogus} : EnterLink(id, Bogus)
  \/ EnterLink(Bogus, SECTIONS[1].links[1])

Frames == \E dq \in FrameDeltas : Frame(dq)

\* commands with valid ids, and frames
Next == ValidCommand \/ Frames

Spec == Init /\ [][Next]_vars

\* the clock a frame leaves: every frame, and nothing else, advances it
Tick == \E dq \in FrameDeltas : time' = NextTime(dq)

\* every frame requests the next one: the clock keeps advancing
FairSpec == Spec /\ WF_time(Tick)

\* one visit: the first planet's button once, then back to home
Visit ==
  \/ lastCmd.name = "none" /\ EnterSection(SECTIONS[1].id)
  \/ lastCmd.name = "enterSection" /\ Back

\* wheel and pinch gestures with nothing under the touches
ZoomGesture ==
  \/ \E deltaY \in WheelDeltas : onWH(deltaY)
  \/ \E dist \in PinchDists : onTS2(dist) \/ onTM2(dist)
  \/ onTE(NoHit)

\* zooming at any time of one visit
NextZoom == ZoomGesture \/ Visit \/ Frames

SpecZoom == Init /\ [][NextZoom]_vars

\* presses at 0, moves within and beyond the click threshold of the device,
\* and releases over anything
ClickGesture ==
  \/ onMD(0) \/ onTS1(0)
  \/ \E x \in {0, ClickSlopMouse, 9} : onMM(x)
  \/ \E x \in {0, ClickSlopTouch, 9} : onTM1(x)
  \/ \E h \in Hits : onMU(h) \/ onTE(h)

\* clicks and drags on the canvas, the back-to-home button, and frames
NextClick == ClickGesture \/ Back \/ Frames

SpecClick == Init /\ [][NextClick]_vars

\* a wheel turn at any time, the first planet and its first moon by their
\* buttons, back to home from the moon, and frames
NextReturn ==
  \/ onWH(10000)
  \/ EnterSection(SECTIONS[1].id)
  \/ EnterLink(SECTIONS[1].id, SECTIONS[1].links[1])
  \/ activeLink # null /\ Back
  \/ Frames

SpecReturn == Init /\ [][NextReturn]_vars

\* gestures of every kind with nothing under the pointer: drags between 0 and
\* 30 px, wheel turns of both signs, pinches between the two distances
AnyGesture ==
  \/ onMD(0) \/ onMU(NoHit)
  \/ onTS1(0) \/ onTE(NoHit)
  \/ \E x \in {0, 30} : onMM(x) \/ onTM1(x)
  \/ \E deltaY \in {-10000, 10000} : onWH(deltaY)
  \/ \E dist \in PinchDists : onTS2(dist) \/ onTM2(dist)

\* the visitor touches the canvas while a section is active or a flight is on
Touching == (activeSection # null \/ cameraAnimRef.active) /\ AnyGesture

\* one visit with gestures during it, and frames
NextGesture == Touching \/ Visit \/ Frames

SpecGesture == Init /\ [][NextGesture]_vars

\* one visit with clicks on nothing and wheel turns, frames, and the unmount
NextTeardown ==
  \/ Visit
  \/ onMD(0) \/ onMU(NoHit)
  \/ onWH(10000)
  \/ Frames
  \/ Unmount

SpecTeardown == Init /\ [][NextTeardown]_vars

\* the arguments of the curve lookup tried: every sample between MaxProgress
\* laps back and MaxProgress laps on
MaxProgress == 30
TorusArgs == (-(MaxProgress * OrbitSteps))..(MaxProgress * OrbitSteps)

\* the scene with the argument of a lookup drawn and no call made yet
InitOrbit ==
  /\ InitScene
  /\ torusLookup \in {[NoLookup EXCEPT !.progress = k] : k \in TorusArgs}
  /\ torusKnot = NoKnot

\* the step of a lookup that leaves look as its record
LookupWrites(name, look) ==
  /\ torusLookup' = look
  /\ lastEvent' = [lastEvent EXCEPT !.name = name, !.input = name]
  /\ UNCHANGED <<navVars, cameraVars, orbitVars, pointerVars, browserVars,
                 cameraAnimRef, prevSectionRef, prevLinkRef, time,
                 subSpherePositions, subOpacity, lastCmd, lineVars, torusKnot>>

\* getTorusPosition(progress) on the argument drawn
LookupDrawn ==
  /\ torusLookup.parameter = NoLookup.parameter
  /\ LookupWrites("lookup", Lookup(torusLookup.progress))

\* getTorusPosition on the parameter the call before evaluated the curve at
LookupWrapped ==
  /\ lastEvent.name = "lookup"
  /\ LookupWrites("lookupWrapped", Lookup(torusLookup.parameter))

NextOrbit == LookupDrawn \/ LookupWrapped

SpecOrbit == InitOrbit /\ [][NextOrbit]_vars

\* drags of the mouse and of one touch over nothing, between 0 and 60 px
DragGesture ==
  \/ onMD(0) \/ onMU(NoHit)
  \/ onTS1(0) \/ onTE(NoHit)
  \/ \E x \in {0, 30, 60} : onMM(x) \/ onTM1(x)

\* drags at Home, and frames
NextDrag == DragGesture \/ Frames

SpecDrag == Init /\ [][NextDrag]_vars

\* one visit with the constellation toggled at Home, and frames
NextLines == ToggleConstellation \/ Visit \/ Frames

SpecLines == Init /\ [][NextLines]_vars

\* presses and releases over anything with no move between, the
\* back-to-home button, and frames
NextRelease ==
  \/ onMD(0) \/ onTS1(0)
  \/ \E h \in Hits : onMU(h) \/ onTE(h)
  \/ Back
  \/ Frames

SpecRelease == Init /\ [][NextRelease]_vars

\* the segment counts tried for the curve
MaxSegments == 12
Segments == 1..MaxSegments

\* the scene with generateTorusPoints entered on arguments drawn
InitTorus ==
  /\ InitScene
  /\ torusLookup = NoLookup
  /\ torusKnot \in {[sections |-> s, spans |-> p, a |-> s, b |-> p,
                      stepsToClose |-> 0, pc |-> "gcd"] :
                       s \in Segments, p \in Segments}

\* the step of generateTorusPoints that leaves knot
KnotWrites(name, knot) ==
  /\ torusKnot' = knot
  /\ lastEvent' = [lastEvent EXCEPT !.name = name, !.input = name]
  /\ UNCHANGED <<navVars, cameraVars, orbitVars, pointerVars, browserVars,
                 cameraAnimRef, prevSectionRef, prevLinkRef, time,
                 subSpherePositions, subOpacity, torusLookup, lastCmd, lineVars>>

\* one turn of the loop of gcd
GcdStep ==
  /\ torusKnot.pc = "gcd"
  /\ torusKnot.b # 0
  /\ KnotWrites("gcd", [torusKnot EXCEPT
                          !.a = GcdNext(torusKnot.a, torusKnot.b)[1],
                          !.b = GcdNext(torusKnot.a, torusKnot.b)[2]])

\* the loop is left and the step count computed
CloseKnot ==
  /\ torusKnot.pc = "gcd"
  /\ torusKnot.b = 0
  /\ KnotWrites("knot", [torusKnot EXCEPT
                           !.stepsToClose = StepsToClose(torusKnot.sections,
                                                         torusKnot.spans,
                                                         torusKnot.a),
                           !.pc = "done"])

NextTorus == GcdStep \/ CloseKnot

SpecTorus == InitTorus /\ [][NextTorus]_vars

\* the loop keeps running until it is left
FairTorus == SpecTorus /\ WF_vars(NextTorus)

\* commands whose ids name nothing, the back actions, and frames
NextAnyId == InvalidCommand \/ Back \/ Frames

SpecAnyId == Init /\ [][NextAnyId]_vars

\* ------------------------------------------------------------------ properties
AtHome == activeSection = null /\ activeLink = null
AtSection(sec) == activeSection = sec /\ activeLink = null
AtLink(sec, link) == activeSection = sec /\ activeLink = link

\* the phase the navigation state calls for once the camera rests
ExpectedPhase ==
  IF activeSection = null THEN "home"
  ELSE IF activeLink = null THEN "parkedAtParent" ELSE "parkedAtSub"

Consistent ==
  /\ ~cameraAnimRef.active
  /\ pendingLinkRef = null
  /\ cameraPhase = ExpectedPhase

\* only frames from some point on: no further command is issued
NoMoreCommands == <>[](lastEvent.name = "frame")

\* the last command was enter-link for a section other than the active one
CrossSectionLink ==
  /\ lastCmd.name = "enterLink"
  /\ lastCmd.from \in {"home", "homeStale", "other"}

\* the step is an enter-link command for a section other than the active one,
\* issued while a section is active
CrossSectionStep ==
  /\ lastEvent'.name = "enterLink"
  /\ activeSection # null
  /\ lastCmd'.sectionId # activeSection

\* C1: once commands stop and frames keep running, the system ends up for good
\* with no flight active, the pending slot empty and the reported phase the
\* one its navigation state calls for.
C1_Settles == NoMoreCommands => <>[]Consistent

\* C2: an enter-link for a moon of another section than the active one leaves
\* the target section active with no link and the link queued: the link is
\* not active before the camera has parked at the target section.
C2_NoSkip ==
  [][CrossSectionStep =>
       /\ activeSection' = lastCmd'.sectionId
       /\ activeLink' = null
       /\ pendingLinkRef' = lastCmd'.linkId]_vars

\* C3: after a cross-section enter-link (B, l) followed by no further command,
\* frames bring the system to AtLink(B, l) and it stays there.
C3_LinkReached ==
  <>[](lastEvent.name = "frame" /\ CrossSectionLink)
    => <>[](AtLink(lastCmd.sectionId, lastCmd.linkId) /\ pendingLinkRef = null)

C3_Witness ==
  /\ CrossSectionLink
  /\ lastCmd.from = "other"
  /\ lastEvent.name = "frame"
  /\ AtLink(lastCmd.sectionId, lastCmd.linkId)
  /\ cameraPhase = "parkedAtSub"

\* the last command was enter-link issued at Home with the camera reported at
\* home, and only frames have run since
InScenarioC == lastCmd.name = "enterLink" /\ lastCmd.from = "home"

\* C4: enter-link (s, l) at Home makes s active, queues l and starts the
\* flight to the parent with no link active; the link stays empty for the
\* whole flight; the queued link is consumed only by a frame that reports
\* parkedAtParent after the flight has completed, which leaves AtLink(s, l)
\* with the slot empty and the flight to the moon started.
C4_ScenarioC ==
  /\ [][(lastEvent'.name = "enterLink" /\ activeSection = null
          /\ cameraPhase \in {"home", "idle"}) =>
          /\ activeSection' = lastCmd'.sectionId /\ activeLink' = null
          /\ pendingLinkRef' = lastCmd'.linkId
          /\ cameraAnimRef'.active /\ cameraAnimRef'.phase = "flyToParent"
          /\ cameraAnimRef'.progress = 0]_vars
  /\ []((InScenarioC /\ cameraAnimRef.phase = "flyToParent") =>
          /\ AtSection(lastCmd.sectionId)
          /\ pendingLinkRef = lastCmd.linkId)
  /\ [][(InScenarioC /\ lastCmd' = lastCmd /\ activeLink' # activeLink) =>
          /\ lastEvent'.name = "frame"
          /\ ~cameraAnimRef.active /\ cameraAnimRef.progress = ProgressOne
          /\ cameraPhase' = "parkedAtParent"
          /\ AtLink(lastCmd.sectionId, lastCmd.linkId)'
          /\ pendingLinkRef' = null
          /\ cameraAnimRef'.active /\ cameraAnimRef'.phase = "flyToSub"
          /\ cameraAnimRef'.progress = 0]_vars

C4_Witness ==
  /\ InScenarioC
  /\ lastEvent.name = "frame"
  /\ lastEvent.consumed = lastCmd.linkId
  /\ AtLink(lastCmd.sectionId, lastCmd.linkId)
  /\ cameraPhase = "parkedAtParent"
  /\ cameraAnimRef.phase = "flyToSub"

\* the command c names a section that does not exist, or a link that its
\* section does not have
InvalidIds(c) ==
  \/ c.sectionId \notin SectionIds
  \/ c.name = "enterLink"
     /\ c.linkId \notin {SECTIONS[FindSection(c.sectionId) + 1].links[k] :
                           k \in 1..NumLinks}

\* C5: enter-section and enter-link with ids that name nothing change neither
\* the navigation state, nor the pending slot, nor the camera's flight.
C5_InvalidNoOp ==
  [][(lastEvent'.name \in {"enterSection", "enterLink"} /\ InvalidIds(lastCmd'))
       => UNCHANGED <<activeSection, activeLink, pendingLinkRef, cameraAnimRef>>]_vars

\* C6: enter-section (s) at AtSection(s) changes nothing: navigation state,
\* pending slot and flight (progress included) are as before.
C6_Idempotent ==
  [][(lastEvent'.name = "enterSection" /\ AtSection(lastCmd'.sectionId))
       => UNCHANGED <<activeSection, activeLink, pendingLinkRef, cameraAnimRef,
                      prevSectionRef, prevLinkRef, cameraPhase, cameraProgress,
                      cameraPosition>>]_vars

C6_Witness ==
  /\ lastEvent.name = "enterSection"
  /\ lastCmd.from = "same"
  /\ lastEvent.flights = 0
  /\ AtSection(lastCmd.sectionId)
  /\ pendingLinkRef # null
  /\ cameraAnimRef.active /\ cameraAnimRef.progress > 0

\* C7: a flight started while another is in progress starts where the camera
\* is, the position the last frame of the interrupted flight produced, with
\* progress 0; the camera itself is not moved by the start.
C7_StartsAtCamera ==
  [][(lastEvent'.flights > 0 /\ cameraAnimRef.active) =>
       /\ cameraAnimRef'.active
       /\ cameraAnimRef'.startPos = cameraPosition
       /\ cameraAnimRef'.startLookAt = cameraAnimRef.currentLookAt
       /\ cameraAnimRef'.progress = 0
       /\ lastEvent'.name # "frame" => cameraPosition' = cameraPosition]_vars

C7_Witness ==
  /\ lastEvent.name \in {"enterSection", "enterLink", "back", "backToSection"}
  /\ lastEvent.flights > 0
  /\ cameraPhase \in {"flyToParent", "flyToSub", "flyHome"}
  /\ cameraProgress > 0 /\ cameraProgress < ProgressOne
  /\ cameraAnimRef.active /\ cameraAnimRef.progress = 0
  /\ cameraAnimRef.startPos = cameraPosition
  /\ cameraAnimRef.startPos # cameraAnimRef.endPos

\* C8: whenever a link is active, a section is active and the link is one of
\* that section's links.
C8_LinkOfSection ==
  activeLink # null =>
    /\ activeSection \in SectionIds
    /\ FindLink(FindSection(activeSection), activeLink) >= 0

C8_Witness ==
  /\ activeLink # null
  /\ lastCmd.name = "enterLink" /\ lastCmd.from = "other"
  /\ activeSection = lastCmd.sectionId

\* the step is a command that clears the pending slot
ClearingStep ==
  \/ lastEvent'.name \in {"back", "backToSection"}
  \/ lastEvent'.name = "enterSection" /\ ~AtSection(lastCmd'.sectionId)

\* C9: the pending slot holds nothing or a link id; a queued link is consumed
\* only in a state with a section active and parkedAtParent reported, and
\* consuming it empties the slot and makes it the active link; a slot cleared
\* by enter-section, back-to-section or back is empty and nothing is consumed.
C9_PendingConsumed ==
  /\ [](pendingLinkRef \in LinkIds \cup {null})
  /\ [][lastEvent'.consumed # null =>
          /\ lastEvent'.consumed =
               (IF lastEvent'.name = "frame" THEN pendingLinkRef ELSE lastCmd'.linkId)
          /\ activeSection' # null
          /\ cameraPhase' = "parkedAtParent"
          /\ pendingLinkRef' = null
          /\ activeLink' = lastEvent'.consumed]_vars
  /\ [][(activeLink' # activeLink /\ activeLink' # null /\ lastEvent'.name = "frame")
          => lastEvent'.consumed = activeLink']_vars
  /\ [][ClearingStep => (pendingLinkRef' = null /\ lastEvent'.consumed = null)]_vars

C9_Witness ==
  /\ lastEvent.name = "frame"
  /\ lastEvent.consumed # null
  /\ activeLink = lastEvent.consumed
  /\ pendingLinkRef = null

\* C10: enter-link for a moon of the active section while the flight to that
\* section is in progress queues the link and leaves the active link empty,
\* whether or not a frame has run since the flight started.
C10_QueuedInFlight ==
  [][(/\ lastEvent'.name = "enterLink"
      /\ AtSection(lastCmd'.sectionId)
      /\ cameraAnimRef.active /\ cameraAnimRef.phase = "flyToParent")
       => (/\ activeLink' = null
           /\ pendingLinkRef' = lastCmd'.linkId
           /\ activeSection' = activeSection)]_vars

\* ------------------------------------------------------------------ C11
\* C11: the target zoom radius is within [2, 8] in every reachable state,
\* whatever wheel and pinch events arrive
C11_ZoomClamped ==
  /\ targetZoomRef >= ZoomMin * PosScale
  /\ targetZoomRef <= ZoomMax * PosScale

\* a pinch move that spreads the touches far enough to reach the lower limit
C11_Witness ==
  /\ lastEvent.input = "touchmove"
  /\ gesture.kind = "pinch"
  /\ pinchStartRef = 650
  /\ targetZoomRef = ZoomMin * PosScale

\* ------------------------------------------------------------------ C12
\* the threshold of the device of a gesture
ClickSlop(kind) == IF kind = "mouse" THEN ClickSlopMouse ELSE ClickSlopTouch

\* the step is the release of a one-pointer gesture
ReleaseStep ==
  /\ gesture.kind \in {"mouse", "touch"}
  /\ lastEvent'.input \in {"mouseup", "touchend"}

\* C12 as stated: every press and release with no move beyond the threshold
\* in between registers as a click, the hit-test is made at the release
C12_ClickRegisters ==
  [][ReleaseStep /\ ~gesture.far => lastEvent'.click.hitTest]_vars

\* C12 amended: every press and release with no move beyond the threshold in
\* between registers as a click when no camera flight is active at the release
C12_ClickAtRest ==
  [][ReleaseStep /\ ~gesture.far /\ ~cameraAnimRef.active
       => lastEvent'.click.hitTest]_vars

\* a touch that moved the 8 px of the threshold from its press at 0, released
\* over a planet: the hit-test is made and the planet is entered
C12_Witness ==
  /\ lastEvent.input = "touchend"
  /\ mouseDownPosRef = 0
  /\ lastMouseRef = ClickSlopTouch
  /\ lastEvent.click.hitTest
  /\ lastEvent.name = "enterSection"

\* ------------------------------------------------------------------ C13
\* C13: a gesture released more than the threshold away from its press makes
\* no hit-test and no navigation, whatever the flight state at press and release
C13_DragNoClick ==
  [][ReleaseStep /\ Abs(gesture.at - gesture.downAt) > ClickSlop(gesture.kind)
       => ~lastEvent'.click.hitTest /\ lastEvent'.name = "pointer"]_vars

\* ------------------------------------------------------------------ C17
\* C17: a release over a moon calls a navigation handler only when the moon's
\* section is the active one, no link is active and the moon's opacity exceeds
\* 0.3; over a moon of another section it calls none
C17_MoonOfActive ==
  [][lastEvent'.input \in {"mouseup", "touchend"}
     /\ lastEvent'.click.hit.type = "sub"
     /\ lastEvent'.name # "pointer"
       => /\ activeSection = SECTIONS[lastEvent'.click.hit.sectionIndex + 1].id
          /\ activeLink = null
          /\ subOpacity[<<lastEvent'.click.hit.sectionIndex,
                          lastEvent'.click.hit.linkIndex>>]
               > OpacityLevel(OpacityThreshold)]_vars

\* ------------------------------------------------------------------ C14
\* the last command entered a section from Home
EnteredFromHome ==
  /\ lastCmd.name = "enterSection"
  /\ lastCmd.from \in {"home", "homeStale"}

\* what a frame reports of a flight of phase `flight` that parks as `parked`,
\* and what it leaves of the navigation state
ReportsFlight(flight, parked) ==
  /\ cameraPhase' = (IF cameraAnimRef.active THEN flight ELSE parked)
  /\ cameraAnimRef.active =>
        /\ cameraAnimRef'.progress > cameraAnimRef.progress
        /\ cameraAnimRef'.active = (cameraAnimRef'.progress < ProgressOne)
        /\ cameraProgress' = cameraAnimRef'.progress
  /\ ~cameraAnimRef.active => ~cameraAnimRef'.active
  /\ UNCHANGED <<activeSection, activeLink>>

\* C14: from Home, entering section s makes the state AtSection(s) and starts a
\* flyToParent flight of 2.5 s; with no further input every frame reports
\* 'flyToParent' until the progress reaches 1 and 'parkedAtParent' afterwards
C14_ScenarioA ==
  [][/\ AtHome /\ lastEvent'.name = "enterSection" =>
          /\ activeSection' = lastCmd'.sectionId
          /\ activeLink' = null
          /\ cameraAnimRef'.active
          /\ cameraAnimRef'.phase = "flyToParent"
          /\ cameraAnimRef'.duration = 25
          /\ cameraAnimRef'.progress = 0
     /\ EnteredFromHome /\ lastEvent'.name = "frame" =>
          ReportsFlight("flyToParent", "parkedAtParent")]_vars

\* a frame after the flight from Home has ended: the camera is parked at the planet
C14_Witness ==
  /\ EnteredFromHome
  /\ lastEvent.name = "frame"
  /\ AtSection(lastCmd.sectionId)
  /\ cameraPhase = "parkedAtParent"

\* ------------------------------------------------------------------ C15
\* the last command entered a link of the section that was active
EnteredLinkOfSame ==
  /\ lastCmd.name = "enterLink"
  /\ lastCmd.from = "same"

\* C15: from AtSection(s) with the camera parked at the planet, entering link l
\* of s makes the state AtLink(s, l) at once and starts a flyToSub flight of
\* 1.8 s; with no further input every frame reports 'flyToSub' until the
\* progress reaches 1 and 'parkedAtSub' afterwards
C15_ScenarioB ==
  [][/\ /\ activeSection # null /\ activeLink = null
         /\ cameraPhase = "parkedAtParent" /\ ~cameraAnimRef.active
         /\ lastEvent'.name = "enterLink"
         /\ lastCmd'.sectionId = activeSection
         => /\ activeSection' = activeSection
            /\ activeLink' = lastCmd'.linkId
            /\ cameraAnimRef'.active
            /\ cameraAnimRef'.phase = "flyToSub"
            /\ cameraAnimRef'.duration = 18
            /\ cameraAnimRef'.progress = 0
     /\ /\ EnteredLinkOfSame
         /\ AtLink(lastCmd.sectionId, lastCmd.linkId)
         /\ cameraAnimRef.phase = "flyToSub"
         /\ lastEvent'.name = "frame"
         => ReportsFlight("flyToSub", "parkedAtSub")]_vars

\* the state a moon click leaves when the camera was parked at the planet: the
\* link is active, the flight to the moon has started, no frame has reported it
C15_Witness ==
  /\ EnteredLinkOfSame
  /\ lastEvent.name = "enterLink"
  /\ AtLink(lastCmd.sectionId, lastCmd.linkId)
  /\ cameraPhase = "parkedAtParent"
  /\ cameraAnimRef.active /\ cameraAnimRef.phase = "flyToSub"
  /\ cameraAnimRef.progress = 0

\* ------------------------------------------------------------------ C16
\* C16: back to home from AtLink(s, l) makes the state Home in one step and
\* starts one flight, flyHome of 2.0 s, with no flyToParent flight in between;
\* when that flight completes the camera is at the free-orbit position of the
\* smoothed rotation and zoom
C16_BackFromLink ==
  /\ [][activeSection # null /\ activeLink # null /\ lastEvent'.name = "back" =>
          /\ activeSection' = null /\ activeLink' = null
          /\ lastEvent'.flights = 1
          /\ cameraAnimRef'.active
          /\ cameraAnimRef'.phase = "flyHome"
          /\ cameraAnimRef'.duration = 20
          /\ cameraAnimRef'.progress = 0]_vars
  /\ [](/\ lastCmd.name = "back" /\ lastEvent.name = "frame"
         /\ cameraPhase = "flyHome" /\ ~cameraAnimRef.active
         => cameraPosition = HomePosition(rotationRef.x, rotationRef.y, zoomRef))

\* ------------------------------------------------------------------ C18
\* the inputs of the pointer, touch and wheel handlers
PointerInputs == {"mousedown", "mousemove", "mouseup", "wheel",
                  "touchstart", "touchmove", "touchend"}

\* C18: while a flight is active no mouse, touch, wheel or pinch event changes
\* the target rotation or the target zoom, the moves of a drag or pinch that
\* began before the flight included
C18_FlightSuppressesInput ==
  [][cameraAnimRef.active /\ lastEvent'.input \in PointerInputs
       => UNCHANGED <<targetRotationRef, targetZoomRef>>]_vars

\* ------------------------------------------------------------------ C19
\* C19: while a section is active the target zoom and the target rotation are
\* left unchanged by every wheel, pinch, mouse-move and touch-move event and by
\* the auto-rotate step of every frame
C19_SectionFreezesOrbit ==
  [][activeSection # null
     /\ lastEvent'.input \in {"wheel", "touchmove", "mousemove", "frame"}
       => UNCHANGED <<targetRotationRef, targetZoomRef>>]_vars

\* a pressed mouse moved 30 px while a section is active and the camera is
\* parked: the drag is tracked and the target azimuth is where it was
C19_Witness ==
  /\ activeSection # null
  /\ ~cameraAnimRef.active
  /\ lastEvent.input = "mousemove"
  /\ isDraggingRef /\ hasDraggedRef
  /\ lastMouseRef = 30
  /\ targetRotationRef = [x |-> 2, y |-> 0]

\* ------------------------------------------------------------------ C20
\* C20: after the unmount no frame callback runs again and no pointer, touch,
\* wheel or resize listener of the scene remains, whenever the unmount happens
\* relative to a scheduled frame or an active flight
C20_TeardownComplete ==
  /\ [](~mounted => rafPending = {} /\ listeners = {})
  /\ [][~mounted => lastEvent' = lastEvent /\ time' = time]_vars

\* unmounted in the middle of a flight, a frame having been scheduled
C20_Witness ==
  /\ ~mounted
  /\ cameraAnimRef.active
  /\ cameraAnimRef.progress > 0
  /\ rafPending = {}
  /\ listeners = {}

\* ------------------------------------------------------------------ C21
\* the step is an enter-link for a moon of the active section, taken while
\* the flight to that section is in progress and another link is queued
LaterClickStep ==
  /\ lastEvent'.name = "enterLink"
  /\ AtSection(lastCmd'.sectionId)
  /\ cameraAnimRef.active /\ cameraAnimRef.phase = "flyToParent"
  /\ pendingLinkRef # null /\ pendingLinkRef # lastCmd'.linkId

\* C21: of several enter-link commands for different moons of the section the
\* camera is flying to, the last one wins: each later click replaces the
\* queued link and activates nothing, and the frame that consumes the queue
\* after the parking makes the link of the last click active.
C21_LatestWins ==
  /\ [][LaterClickStep =>
          /\ pendingLinkRef' = lastCmd'.linkId
          /\ activeLink' = null
          /\ activeSection' = activeSection]_vars
  /\ [][(/\ lastEvent'.name = "frame" /\ lastEvent'.consumed # null
         /\ lastCmd.name = "enterLink")
          => AtLink(lastCmd.sectionId, lastCmd.linkId)']_vars

\* ------------------------------------------------------------------ C22
\* C22: every call of getTorusPosition evaluates the curve at its argument
\* modulo one lap, a parameter within [0, 1), for negative arguments too;
\* wrapping a wrapped argument leaves it as it is, so the call on the wrapped
\* argument evaluates the curve at the same parameter and returns the same
\* point.
C22_TorusWraps ==
  /\ [](torusLookup.parameter # NoLookup.parameter =>
          /\ torusLookup.parameter \in 0..(OrbitSteps - 1)
          /\ torusLookup.parameter = torusLookup.progress % OrbitSteps
          /\ TorusParameter(torusLookup.parameter) = torusLookup.parameter
          /\ torusLookup.point
               = getTorusPosition(torusLookup.progress % OrbitSteps))
  /\ [][lastEvent'.name = "lookupWrapped" =>
          /\ torusLookup'.progress = torusLookup.progress % OrbitSteps
          /\ torusLookup'.parameter = torusLookup.parameter
          /\ torusLookup'.point = torusLookup.point]_vars

C22_Witness ==
  /\ lastEvent.name = "lookup"
  /\ torusLookup.progress < -OrbitSteps
  /\ JsRem(torusLookup.progress, OrbitSteps) < 0
  /\ torusLookup.parameter = OrbitSteps - 1
  /\ torusLookup.point = TorusSamples[OrbitSteps]

\* ------------------------------------------------------------------ C23
\* the step changes the navigation state
NavChanges == <<activeSection, activeLink>>' # <<activeSection, activeLink>>

\* the changes of the navigation state a step commits: a command that
\* changes it, and the consumption of the queued link after that
ChangesCommitted ==
  IF lastEvent'.name # "frame" /\ lastEvent'.consumed # null THEN 2 ELSE 1

\* C23: every step that changes the navigation state starts one flight for
\* each change it commits and leaves the flight of the new state active with
\* progress 0: flyToSub of 1.8 s to the moon at AtLink, flyToParent to the
\* section at AtSection, flyHome of 2.0 s at Home (durations in tenths of a
\* second).
C23_FlightPerChange ==
  [][NavChanges =>
       /\ lastEvent'.flights = ChangesCommitted
       /\ cameraAnimRef'.active
       /\ cameraAnimRef'.progress = 0
       /\ IF activeLink' # null
          THEN /\ cameraAnimRef'.phase = "flyToSub"
               /\ cameraAnimRef'.duration = 18
               /\ cameraAnimRef'.targetSectionIndex = FindSection(activeSection')
               /\ cameraAnimRef'.targetLinkIndex
                    = FindLink(FindSection(activeSection'), activeLink')
               /\ cameraAnimRef'.targetLinkIndex >= 0
          ELSE IF activeSection' # null
          THEN /\ cameraAnimRef'.phase = "flyToParent"
               /\ cameraAnimRef'.targetSectionIndex = FindSection(activeSection')
               /\ cameraAnimRef'.targetSectionIndex >= 0
               /\ cameraAnimRef'.targetLinkIndex = -1
          ELSE /\ cameraAnimRef'.phase = "flyHome"
               /\ cameraAnimRef'.duration = 20
               /\ cameraAnimRef'.targetSectionIndex = -1]_vars

C23_Witness ==
  /\ lastEvent.name = "back"
  /\ lastEvent.flights = 1
  /\ AtHome
  /\ prevSectionRef = null
  /\ cameraPhase = "parkedAtSub"
  /\ cameraAnimRef.active /\ cameraAnimRef.phase = "flyHome"
  /\ cameraAnimRef.progress = 0 /\ cameraAnimRef.duration = 20

\* ------------------------------------------------------------------ C24
\* the step leaves a flight to a planet it has started
StartsFlyToParent ==
  /\ NavChanges
  /\ lastEvent'.flights > 0
  /\ cameraAnimRef'.phase = "flyToParent"
  /\ cameraAnimRef'.progress = 0

\* C24: a flight to a planet lasts 1.5 s when a link was active in the
\* navigation state right before the step that starts it, and 2.5 s when none
\* was (durations in tenths of a second).
C24_ParentDuration ==
  [][StartsFlyToParent =>
       cameraAnimRef'.duration = (IF activeLink # null THEN 15 ELSE 25)]_vars

C24_Witness ==
  /\ lastEvent.name = "enterSection"
  /\ lastEvent.flights = 1
  /\ lastCmd.from = "other"
  /\ prevLinkRef = null
  /\ cameraPhase = "parkedAtSub"
  /\ cameraAnimRef.active /\ cameraAnimRef.phase = "flyToParent"
  /\ cameraAnimRef.progress = 0 /\ cameraAnimRef.duration = 15

\* ------------------------------------------------------------------ C25
\* the step is an enter-section for another section than the active one,
\* taken with a section and no link active
RetargetStep ==
  /\ lastEvent'.name = "enterSection"
  /\ activeSection # null /\ activeLink = null
  /\ lastCmd'.sectionId # activeSection

\* C25: from AtSection(s), enter-section for another section s2 leaves
\* AtSection(s2) in one step, with the pending slot empty and one flight
\* started, a flyToParent flight to s2: the state is not Home at any point and
\* no flyHome flight is started.
C25_DirectRetarget ==
  [][RetargetStep =>
       /\ activeSection' = lastCmd'.sectionId
       /\ activeLink' = null
       /\ pendingLinkRef' = null
       /\ lastEvent'.consumed = null
       /\ lastEvent'.flights = 1
       /\ cameraAnimRef'.active
       /\ cameraAnimRef'.phase = "flyToParent"
       /\ cameraAnimRef'.targetSectionIndex = FindSection(lastCmd'.sectionId)
       /\ cameraAnimRef'.targetLinkIndex = -1
       /\ cameraAnimRef'.progress = 0
       /\ prevSectionRef' = lastCmd'.sectionId]_vars

C25_Witness ==
  /\ lastEvent.name = "enterSection"
  /\ lastCmd.from = "other"
  /\ lastEvent.flights = 1
  /\ AtSection(lastCmd.sectionId)
  /\ cameraPhase = "flyToParent"
  /\ cameraProgress > 0
  /\ cameraAnimRef.active /\ cameraAnimRef.phase = "flyToParent"
  /\ cameraAnimRef.targetSectionIndex = FindSection(lastCmd.sectionId)
  /\ cameraAnimRef.progress = 0 /\ cameraAnimRef.duration = DurationFromHome

\* ------------------------------------------------------------------ C26
\* C26: back-to-section with a link active leaves the same section active
\* with no link; back with a section and no link active leaves Home; back at
\* Home changes neither the navigation state nor the camera and its flight
\* and starts no flight; every back and back-to-section leaves the pending
\* slot empty.
C26_BackActions ==
  /\ [][(lastEvent'.name = "backToSection" /\ activeLink # null) =>
          /\ activeSection' = activeSection
          /\ activeLink' = null]_vars
  /\ [][(lastEvent'.name = "back" /\ activeSection # null /\ activeLink = null) =>
          /\ activeSection' = null
          /\ activeLink' = null]_vars
  /\ [][(lastEvent'.name = "back" /\ AtHome) =>
          /\ lastEvent'.flights = 0
          /\ UNCHANGED <<navVars, cameraAnimRef, prevSectionRef, prevLinkRef,
                         cameraVars, orbitVars, subSpherePositions>>]_vars
  /\ [][lastEvent'.name \in {"back", "backToSection"} =>
          /\ pendingLinkRef' = null
          /\ lastEvent'.consumed = null]_vars

C26_Witness ==
  /\ lastEvent.name = "back"
  /\ lastEvent.flights = 0
  /\ lastCmd.from = "homeStale"
  /\ AtHome
  /\ pendingLinkRef = null
  /\ cameraAnimRef.active /\ cameraAnimRef.phase = "flyHome"
  /\ cameraAnimRef.progress > 0

\* ------------------------------------------------------------------ C27
\* the step is a frame run with a flight active
FlightFrameStep == lastEvent'.name = "frame" /\ cameraAnimRef.active

\* the time deltas of the frames, in tenths of a second
DeltaTenths == {dq * DeltaQuantum : dq \in FrameDeltas}

\* C27: the progress of the flight is within [0, 1] in every state and below
\* 1 while the flight is active; a frame of an active flight adds
\* delta / duration to it, capped at 1, and leaves the flight active exactly
\* when the progress is still below 1.
C27_ProgressBounded ==
  /\ [](/\ cameraAnimRef.progress >= 0
        /\ cameraAnimRef.progress <= ProgressOne
        /\ cameraAnimRef.active => cameraAnimRef.progress < ProgressOne)
  /\ [][FlightFrameStep => \E delta \in DeltaTenths :
          /\ delta > 0
          /\ cameraAnimRef'.duration = cameraAnimRef.duration
          /\ IF cameraAnimRef.progress * cameraAnimRef.duration + delta * ProgressOne
                  >= ProgressOne * cameraAnimRef.duration
             THEN cameraAnimRef'.progress = ProgressOne
             ELSE cameraAnimRef'.progress * cameraAnimRef.duration
                    = cameraAnimRef.progress * cameraAnimRef.duration
                      + delta * ProgressOne
          /\ cameraAnimRef'.active = (cameraAnimRef'.progress < ProgressOne)]_vars

\* the frame that ends a descent from home: the last step overshoots 1
C27_Witness ==
  /\ lastEvent.name = "frame"
  /\ ~cameraAnimRef.active
  /\ cameraAnimRef.progress = ProgressOne
  /\ cameraAnimRef.duration = DurationFromHome
  /\ cameraPhase = "flyToParent"
  /\ cameraProgress = ProgressOne

\* ------------------------------------------------------------------ C28
\* the flight has ended: inactive with progress 1
FlightEnded == ~cameraAnimRef.active /\ cameraAnimRef.progress = ProgressOne

\* the last step started a flight, over the one there was
FlightStarted == lastEvent.flights > 0

\* C28: while frames keep running, every active flight ends, inactive with
\* progress 1, unless a later step starts another flight over it: the step
\* after a flight's start starts another or leaves it in progress or ended,
\* and a flight in progress after a step that started none goes on to its end
\* or to the start of another.
C28_FlightsEnd ==
  /\ [][(cameraAnimRef.active /\ FlightStarted) =>
          (FlightStarted' \/ cameraAnimRef'.active \/ FlightEnded')]_vars
  /\ [](cameraAnimRef.active /\ ~FlightStarted => <>(FlightEnded \/ FlightStarted))

C28_Witness ==
  /\ lastEvent.name = "frame"
  /\ FlightEnded
  /\ cameraAnimRef.phase = "flyHome"
  /\ cameraPhase = "flyHome"
  /\ cameraProgress = ProgressOne
  /\ AtHome

\* ------------------------------------------------------------------ C29
\* C29: a frame run with a flight active reports that flight's phase with the
\* progress the frame leaves, 1 on the frame that ends the flight; a frame run
\* with no flight active reports progress 0 and 'home' with no section
\* active, 'parkedAtParent' with a section and no link, 'parkedAtSub' with a
\* link.
C29_ReportedPhase ==
  [][lastEvent'.name = "frame" =>
       IF cameraAnimRef.active
       THEN /\ cameraPhase' = cameraAnimRef.phase
            /\ cameraPhase' \in {"flyToParent", "flyToSub", "flyHome"}
            /\ cameraProgress' = cameraAnimRef'.progress
            /\ cameraProgress' > cameraAnimRef.progress
            /\ ~cameraAnimRef'.active <=> cameraProgress' = ProgressOne
       ELSE /\ cameraProgress' = 0
            /\ cameraPhase' = (IF activeSection = null THEN "home"
                               ELSE IF activeLink = null THEN "parkedAtParent"
                               ELSE "parkedAtSub")]_vars

C29_Witness ==
  /\ lastEvent.name = "frame"
  /\ cameraPhase = "flyToSub"
  /\ cameraProgress = ProgressOne
  /\ ~cameraAnimRef.active
  /\ activeLink # null

\* ------------------------------------------------------------------ C30
\* C30: every step that starts a flight records as the flight's start look-at
\* the point the camera was given to look at by the most recent frame, whether
\* a flight was in progress or the camera was at rest.
C30_StartsAtLookAt ==
  [][lastEvent'.flights > 0 => cameraAnimRef'.startLookAt = cameraLookAt']_vars

\* ------------------------------------------------------------------ C31
\* the step is the first frame after the release of a gesture, run at Home
\* with no flight active
FrameAfterRelease ==
  /\ lastEvent.input \in {"mouseup", "touchend"}
  /\ lastEvent'.name = "frame"
  /\ activeSection = null
  /\ ~cameraAnimRef.active

\* C31: the first frame after a drag ends at Home with no flight active
\* leaves as target azimuth the one the drag left plus the auto-rotate
\* increment of the frame (azimuths modulo a turn), whatever the order of the
\* moves, the release and the frames before.
C31_DragKept ==
  [][FrameAfterRelease => \E dq \in FrameDeltas :
       (targetRotationRef'.y - (targetRotationRef.y + dq)) % AngleTurn = 0]_vars

\* ------------------------------------------------------------------ C32
\* the constellation lines
Lines == 0..(NumSections - 1)

\* C32: every frame moves the opacity of every constellation line toward 0.35
\* and rests there exactly when the flag is on and no section is active, and
\* toward 0 otherwise; so every frame run with a section active lowers the
\* opacity of a line that is not at 0 and leaves it at or above 0, whatever
\* the flag; toggling the flag changes neither the navigation state nor the
\* camera animation record (opacities in hundredths).
C32_LinesFade ==
  /\ [](\A i \in Lines : lineOpacity[i] >= 0 /\ lineOpacity[i] <= 35)
  /\ [][lastEvent'.name = "frame" => \A i \in Lines :
          IF showConstellation /\ activeSection = null
          THEN /\ lineOpacity[i] < 35 => lineOpacity'[i] > lineOpacity[i]
               /\ lineOpacity[i] = 35 => lineOpacity'[i] = 35
          ELSE /\ lineOpacity[i] > 0 => lineOpacity'[i] < lineOpacity[i]
               /\ lineOpacity[i] = 0 => lineOpacity'[i] = 0]_vars
  /\ [][lastEvent'.name = "toggle" =>
          UNCHANGED <<navVars, cameraAnimRef, prevSectionRef, prevLinkRef>>]_vars

C32_Witness ==
  /\ lastEvent.name = "frame"
  /\ activeSection # null
  /\ showConstellation
  /\ \A i \in Lines : lineOpacity[i] > 0 /\ lineOpacity[i] < 20

\* ------------------------------------------------------------------ C33
\* C33: every frame reports a list of moon positions that is empty unless a
\* section and no link is active in the state the frame runs with, and that
\* then has one entry for every link of the active section, in the order of
\* the links (an entry is known by the link of its moon).
C33_MoonsReported ==
  [][lastEvent'.name = "frame" =>
       IF activeSection # null /\ activeLink = null
       THEN /\ Len(subSpherePositions') = NumLinks
            /\ \A k \in 1..NumLinks :
                 /\ subSpherePositions'[k] \in LinkIds
                 /\ FindLink(FindSection(activeSection), subSpherePositions'[k]) = k - 1
       ELSE subSpherePositions' = <<>>]_vars

C33_Witness ==
  /\ lastEvent.name = "frame"
  /\ activeSection # null /\ activeLink = null
  /\ cameraPhase = "parkedAtParent"
  /\ Len(subSpherePositions) = NumLinks
  /\ subSpherePositions[NumLinks] = SECTIONS[FindSection(activeSection) + 1].links[NumLinks]

\* ------------------------------------------------------------------ C34
\* the flight in the record is the one the navigation state calls for
FlightOfState ==
  LET a == cameraAnimRef
  IN \/ /\ a.phase = "flyToParent"
        /\ activeSection # null /\ activeLink = null
        /\ a.targetSectionIndex = FindSection(activeSection)
        /\ a.targetSectionIndex >= 0
        /\ a.targetLinkIndex = -1
     \/ /\ a.phase = "flyToSub"
        /\ activeSection # null /\ activeLink # null
        /\ a.targetSectionIndex = FindSection(activeSection)
        /\ a.targetLinkIndex = FindLink(FindSection(activeSection), activeLink)
        /\ a.targetSectionIndex >= 0 /\ a.targetLinkIndex >= 0
     \/ /\ a.phase = "flyHome"
        /\ activeSection = null /\ activeLink = null
        /\ a.targetSectionIndex = -1

\* C34: an active flight is the one of the navigation state: flyToParent to
\* the active section with no link active, flyToSub to the active link of the
\* active section, flyHome with no section active; a step that leaves the
\* navigation state as it is neither starts a flight nor changes the phase
\* or the targets of the one in the record, so no earlier flight resumes.
C34_FlightMatchesState ==
  /\ [](cameraAnimRef.active => FlightOfState)
  /\ [][~NavChanges =>
          /\ cameraAnimRef'.active => cameraAnimRef.active
          /\ cameraAnimRef'.phase = cameraAnimRef.phase
          /\ cameraAnimRef'.targetSectionIndex = cameraAnimRef.targetSectionIndex
          /\ cameraAnimRef'.targetLinkIndex = cameraAnimRef.targetLinkIndex]_vars

C34_Witness ==
  /\ cameraAnimRef.active
  /\ cameraAnimRef.phase = "flyToSub"
  /\ cameraAnimRef.progress > 0
  /\ lastCmd.name = "enterLink" /\ lastCmd.from = "other"
  /\ AtLink(lastCmd.sectionId, lastCmd.linkId)
  /\ cameraAnimRef.targetSectionIndex = FindSection(lastCmd.sectionId)

\* ------------------------------------------------------------------ C35
\* C35: whenever the pending slot holds a link, a section is active, no link
\* is active and the link held is one of the links of the active section.
C35_PendingOfSection ==
  pendingLinkRef # null =>
    /\ activeSection # null
    /\ activeLink = null
    /\ FindLink(FindSection(activeSection), pendingLinkRef) >= 0

\* ------------------------------------------------------------------ C36
\* C36: a mouseup or touchend taken while a flight is active changes neither
\* the navigation state nor the pending slot, and makes no hit-test; a step
\* that changes either of them while a flight is active is the step of a
\* button of the page.
C36_NoClickInFlight ==
  /\ [][(cameraAnimRef.active /\ lastEvent'.input \in {"mouseup", "touchend"}) =>
          /\ UNCHANGED <<navVars, cameraAnimRef>>
          /\ ~lastEvent'.click.hitTest]_vars
  /\ [][(cameraAnimRef.active /\ navVars' # navVars) =>
          lastEvent'.input = "button"]_vars

C36_Witness ==
  /\ lastEvent.input \in {"mouseup", "touchend"}
  /\ lastEvent.name = "pointer"
  /\ ~lastEvent.click.hitTest
  /\ cameraAnimRef.active /\ cameraAnimRef.phase = "flyToParent"
  /\ cameraAnimRef.progress > 0
  /\ pendingLinkRef = null

\* d divides n
Divides(d, n) == n % d = 0

\* generateTorusPoints has computed stepsToClose
KnotDone == torusKnot.pc = "done"

\* a turn of the loop of gcd that is followed by another test of b
GcdTurn == torusKnot.pc = "gcd" /\ torusKnot'.pc = "gcd"

\* C37: for positive sections and spans, stepsToClose is their least common
\* multiple: a positive multiple of both (both angles have made whole turns
\* after stepsToClose steps) and no smaller positive step count is; the value
\* gcd returns divides both and no common divisor is greater; every turn of
\* the loop lowers b, which stays non-negative, and the loop is left.
C37_StepsToCloseIsLcm ==
  /\ [](KnotDone =>
          /\ torusKnot.stepsToClose > 0
          /\ Divides(torusKnot.sections, torusKnot.stepsToClose)
          /\ Divides(torusKnot.spans, torusKnot.stepsToClose)
          /\ \A i \in 1..(torusKnot.stepsToClose - 1) :
               ~(Divides(torusKnot.sections, i) /\ Divides(torusKnot.spans, i))
          /\ Divides(torusKnot.a, torusKnot.sections)
          /\ Divides(torusKnot.a, torusKnot.spans)
          /\ \A d \in 1..torusKnot.sections :
               Divides(d, torusKnot.sections) /\ Divides(d, torusKnot.spans)
                 => d <= torusKnot.a)
  /\ [][GcdTurn => torusKnot'.b >= 0 /\ torusKnot'.b < torusKnot.b]_vars
  /\ <>KnotDone

\* the curve's own arguments: 11 sections and 12 spans close after 132 steps
C37_Witness ==
  /\ KnotDone
  /\ lastEvent.name = "knot"
  /\ torusKnot.sections = 11
  /\ torusKnot.spans = 12
  /\ torusKnot.a = 1
  /\ torusKnot.stepsToClose = 132

====
